---------------------------- MODULE Spec2Model ----------------------------
(***************************************************************************)
(* Model of the basis-set build-and-cache subsystem of casm.project:       *)
(*   - text_io.safe_dump, the write-to-temporary-then-rename writer        *)
(*     (specification SpecDump, one step per statement, with a writer      *)
(*     that may be killed between any two statements);                     *)
(*   - BsetData / BsetOutputData: clean, update, make_clexulator,          *)
(*     make_local_clexulator, _update_generated_files, set_bspecs          *)
(*     (specification Spec).                                               *)
(* The generator (casm.bset.write_clexulator) and the compiler/loader      *)
(* (libcasm.clexulator.make_clexulator / make_local_clexulator) are        *)
(* external collaborators, modelled by their interface.                    *)
(***************************************************************************)
EXTENDS Integers, Sequences, FiniteSets, TLC

VARIABLES
    \* ---- the safe_dump writer (SpecDump) ----
    fsD,        \* [parent, tgt, tmp]: parent directory, target file, "<path>.tmp"
    dpc,        \* position of the writer inside safe_dump
    darg,       \* arguments of the running call: [data, force, gz]
    dpre,       \* the files as they were when the running call started
    \* ---- BsetData (Spec) ----
    disk,       \* generated files present in the basis set directory
    gf,         \* generated_files.json: Absent or <<[all, src, local]>>
    gftmp,      \* generated_files.json.tmp: Absent or a leftover
    specs,      \* BsetData.clex_basis_specs: None or <<n>> (n = 0 periodic, n > 0 local with n equivalents)
    nlist,      \* proj.prim_neighbor_list is not None
    pc,         \* "idle", or the position inside a running update()
    uflags,     \* arguments of the running / last update(): [no_compile, only_compile]
    log,        \* the steps the running / last update() has performed, in order
    lastOp,     \* the last method called
    result,     \* how the last call ended: "ok", "None", "handle", "raised"; "running" inside update()
    invoked,    \* number of compiler/loader invocations made by the last call
    removed,    \* the paths the last clean() removed (its "- Removing" lines)
    raisedEver, \* some call so far has raised
    lazy,       \* update(no_compile=True) returned and only make_clexulator() calls followed
    kMake,      \* number of those make_clexulator() calls
    kComp,      \* number of compiler/loader invocations they made
    upre,       \* None, or <<[disk, gf, gftmp]>>: the directory when the running / last
                \* update() was called
    lastUpd,    \* None, or <<[specs, flags, gf, n]>>: the run of n consecutive update() calls
                \* that returned normally with these arguments, and the manifest the first left
    \* ---- BsetData.load / commit (SpecStore) ----
    version,                  \* BsetData.version: None or <<str>>
    linear_function_indices,  \* BsetData.linear_function_indices: None or <<list>>
    meta,                     \* BsetData.meta: [type, keys]
    bspecs_json,              \* bspecs.json: Absent or <<document>>
    writer_params_json,       \* writer_params.json
    meta_json,                \* meta.json
    bspecs_tmp,               \* bspecs.json.tmp: Absent or a leftover
    writer_params_tmp,        \* writer_params.json.tmp
    meta_tmp,                 \* meta.json.tmp
    prevOp,                   \* when the last call was load(): <<method, result>> of the call
                              \* before it; <<>> otherwise
    said,                     \* the files the last commit() announced as "Removing"
    \* ---- BsetData._update_generated_files (SpecReg) ----
    regArg,     \* abspaths of the last call
    regPre,     \* [gf, tmp]: generated_files.json and its temporary when the last call started
    regRepeat,  \* the last call repeated the abspaths of the call before it, which had returned
    \* ---- BsetData.__init__ (SpecId) ----
    idArg,      \* the id handed to BsetData(proj, id)
    idOut,      \* "none" before the construction, then "constructed" or "raised"
    \* ---- two processes in safe_dump on one target (SpecRace) ----
    rfs,        \* the directory: [parent, tgt, tmp], a name being Absent or <<inode>>
    ino,        \* the content of each inode
    wr,         \* per writer: [pc, data, fd, off]: position, payload, the inode its open
                \* file object refers to (0: none) and the bytes it has written
    raced       \* some writer opened "<path>.tmp" when the other writer had created it

varsD == <<fsD, dpc, darg, dpre>>
varsB == <<disk, gf, gftmp, specs, nlist, pc, uflags, log, lastOp, result,
           invoked, removed, raisedEver, lazy, kMake, kComp, upre, lastUpd>>
varsS == <<version, linear_function_indices, meta, bspecs_json, writer_params_json,
           meta_json, bspecs_tmp, writer_params_tmp, meta_tmp, prevOp, said>>
varsR == <<regArg, regPre, regRepeat>>
varsI == <<idArg, idOut>>
varsW == <<rfs, ino, wr, raced>>
vars == <<fsD, dpc, darg, dpre, disk, gf, gftmp, specs, nlist, pc, uflags, log,
          lastOp, result, invoked, removed, raisedEver, lazy, kMake, kComp, upre, lastUpd,
          version, linear_function_indices, meta, bspecs_json, writer_params_json,
          meta_json, bspecs_tmp, writer_params_tmp, meta_tmp, prevOp, said,
          regArg, regPre, regRepeat, idArg, idOut, rfs, ino, wr, raced>>

---------------------------------------------------------------------------
\* Bounds

\* longest payload handed to safe_dump
MaxLen == 2
\* largest number of symmetry-equivalent local basis sets the generator writes
MaxEquiv == 2
\* longest run of consecutive make_clexulator() calls that is counted
MaxCalls == 3

---------------------------------------------------------------------------
\* Files

\* a path that does not exist / Python's None
Absent == <<>>
None == <<>>

\* a file holding content c
File(c) == <<c>>

\* pathlib.Path.exists()
Exists(f) == f # Absent

Range(s) == {s[i] : i \in 1..Len(s)}

Alphabet == {"a", "b"}

\* all strings of length 0..n
RECURSIVE Strings(_)
Strings(n) ==
    IF n = 0 THEN {<<>>}
    ELSE LET shorter == Strings(n - 1)
         IN  shorter \cup {Append(s, c) : s \in {t \in shorter : Len(t) = n - 1}, c \in Alphabet}

Payloads == Strings(MaxLen)

\* what the with-block writes: data, or the gzip stream of data.encode("utf-8")
\* (a gzip header followed by the compressed bytes, never the plain text)
Encode(data, gz) == IF gz THEN <<"gzip">> \o data ELSE data

---------------------------------------------------------------------------
\* text_io.safe_dump

\* safe_dump, lines 177-187: the target exists and force is false: "skipping"
\* (faulty variant: the test on force inverted)
SkipsWhenForced(fs, force) == Exists(fs.tgt) /\ force
SkipsWrite(fs, force) == Exists(fs.tgt) /\ ~force

\* the message safe_dump prints unless quiet
Decision(fs, force) ==
    IF Exists(fs.tgt) THEN (IF force THEN "overwrite" ELSE "skipping") ELSE "write"

\* the statements of _safe_write in program order
\* (faulty variants: the target unlinked before the temporary is opened, or
\* inside the with-block before the write)
UnlinkBeforeWriteSteps == <<"mkdir", "chk", "exists", "unlink", "open", "write", "rename">>
UnlinkInsideWithSteps == <<"mkdir", "chk", "open", "exists", "unlink", "write", "rename">>
SafeWriteSteps == <<"mkdir", "chk", "open", "write", "exists", "unlink", "rename">>

\* the statement after position p
StepAfter(p) ==
    LET i == CHOOSE k \in 1..Len(SafeWriteSteps) : SafeWriteSteps[k] = p
    IN  IF i = Len(SafeWriteSteps) THEN "done" ELSE SafeWriteSteps[i + 1]

\* path.parent.mkdir(parents=True, exist_ok=True)
MkdirParents(fs) == [fs EXCEPT !.parent = TRUE]

\* if tmp_path.exists(): raise
\* (faulty variant: no check)
NoConflictCheck(fs) == FALSE
TmpConflict(fs) == Exists(fs.tmp)

\* the file the with-block opens for writing
\* (faulty variant: the target itself, as in dump._write)
WriteToTarget == "tgt"
WriteField == "tmp"

\* open(..., "w"): create the file, or truncate it
OpenW(fs) == [fs EXCEPT ![WriteField] = File(<<>>)]

\* the bytes of the stream that have reached the file
Written(fs) == fs[WriteField][1]

\* one more byte of the stream reaches the file
WriteChunk(fs, bytes) ==
    [fs EXCEPT ![WriteField] = File(Append(Written(fs), bytes[Len(Written(fs)) + 1]))]

\* if path.exists(): path.unlink()
UnlinkTarget(fs) == [fs EXCEPT !.tgt = Absent]

\* tmp_path.rename(path); raises when tmp_path does not exist
\* (faulty variants: the temporary is copied, not renamed; renaming a missing
\* temporary does not raise)
RenameOfMissingSucceeds(fs) == FALSE
RenameRaises(fs) == ~Exists(fs.tmp)
CopyTmp(fs) == [fs EXCEPT !.tgt = fs.tmp]
RenameTmp(fs) == [fs EXCEPT !.tgt = fs.tmp, !.tmp = Absent]

\* safe_dump as one call that runs to completion (BsetData imports safe_dump
\* from casm.project.json_io, which dumps JSON by the same protocol)
SafeDump(fs, data, force, gz) ==
    IF SkipsWrite(fs, force) THEN [fs |-> fs, out |-> "skipped"]
    ELSE IF TmpConflict(MkdirParents(fs)) THEN [fs |-> MkdirParents(fs), out |-> "raised"]
    ELSE [fs  |-> [parent |-> TRUE, tgt |-> File(Encode(data, gz)), tmp |-> Absent],
          out |-> "done"]

\* text_io.dump

\* the message dump prints unless quiet
DumpDecision(fs, force) ==
    IF Exists(fs.tgt) THEN (IF force THEN "overwrite" ELSE "skipping") ELSE "write"

\* dump._write: mkdir of the parent, open(path, "w"), f.write
DumpWrite(fs, data, gz) ==
    [MkdirParents(fs) EXCEPT !.tgt = File(Encode(data, gz))]

\* dump as one call that runs to completion
\* (faulty variant: an existing target is never overwritten)
DumpIgnoresForce(fs, data, force, gz) ==
    IF Exists(fs.tgt) THEN [fs |-> fs, out |-> "skipped"]
    ELSE [fs |-> DumpWrite(fs, data, gz), out |-> "done"]
Dump(fs, data, force, gz) ==
    IF Exists(fs.tgt)
    THEN IF force THEN [fs |-> DumpWrite(fs, data, gz), out |-> "done"]
         ELSE [fs |-> fs, out |-> "skipped"]
    ELSE [fs |-> DumpWrite(fs, data, gz), out |-> "done"]

DTerminal == {"idle", "done", "skipped", "raised", "killed"}

\* a basis set directory without generated files, and a BsetData just constructed on it
IdleB ==
    /\ disk = {} /\ gf = Absent /\ gftmp = Absent /\ specs = None /\ nlist = TRUE
    /\ pc = "idle" /\ uflags = [no_compile |-> FALSE, only_compile |-> FALSE]
    /\ log = <<>> /\ lastOp = "init" /\ result = "ok" /\ invoked = 0 /\ removed = {}
    /\ raisedEver = FALSE /\ lazy = FALSE /\ kMake = 0 /\ kComp = 0 /\ upre = None /\ lastUpd = None

\* an empty basis set directory, read by BsetData.__init__
IdleS ==
    /\ version = <<"v1.basic">> /\ linear_function_indices = None
    /\ meta = [type |-> "dict", keys |-> {}]
    /\ bspecs_json = Absent /\ writer_params_json = Absent /\ meta_json = Absent
    /\ bspecs_tmp = Absent /\ writer_params_tmp = Absent /\ meta_tmp = Absent
    /\ prevOp = <<>> /\ said = {}

\* _update_generated_files not called so far
IdleR ==
    /\ regArg = <<>> /\ regPre = [gf |-> Absent, tmp |-> Absent] /\ regRepeat = FALSE

\* the BsetData was constructed with the id "a"
IdleI ==
    /\ idArg = <<"a">> /\ idOut = "constructed"

IdleD ==
    /\ fsD = [parent |-> FALSE, tgt |-> Absent, tmp |-> Absent]
    /\ dpc = "idle"
    /\ darg = [data |-> <<>>, force |-> FALSE, gz |-> FALSE]
    /\ dpre = fsD

\* the two processes, and the inodes they can hold at once (one per writer
\* and the old target)
Writers == {1, 2}
Inodes == 1..(Cardinality(Writers) + 1)

\* no process has called safe_dump
IdleW ==
    /\ rfs = [parent |-> FALSE, tgt |-> Absent, tmp |-> Absent]
    /\ ino = [i \in Inodes |-> <<>>]
    /\ wr = [w \in Writers |-> [pc |-> "idle", data |-> <<>>, fd |-> 0, off |-> 0]]
    /\ raced = FALSE

InitDump ==
    /\ \E par \in BOOLEAN, d \in Payloads, z \in BOOLEAN, ex \in BOOLEAN :
          fsD = [parent |-> par \/ ex,
                 tgt |-> IF ex THEN File(Encode(d, z)) ELSE Absent,
                 tmp |-> Absent]
    /\ dpc = "idle"
    /\ darg = [data |-> <<>>, force |-> FALSE, gz |-> FALSE]
    /\ dpre = fsD
    /\ IdleB /\ IdleS /\ IdleR /\ IdleI /\ IdleW

\* safe_dump(data, path, force, quiet, gz) is called
DCall ==
    /\ UNCHANGED <<varsB, varsS, varsR, varsI, varsW>>
    /\ dpc \in DTerminal
    /\ \E d \in Payloads, f \in BOOLEAN, z \in BOOLEAN :
          darg' = [data |-> d, force |-> f, gz |-> z]
    /\ dpre' = fsD
    /\ dpc' = "test"
    /\ UNCHANGED fsD

\* lines 177-187
DTest ==
    /\ UNCHANGED <<varsB, varsS, varsR, varsI, varsW>>
    /\ dpc = "test"
    /\ dpc' = IF SkipsWrite(fsD, darg.force) THEN "skipped" ELSE SafeWriteSteps[1]
    /\ UNCHANGED <<fsD, darg, dpre>>

DMkdir ==
    /\ UNCHANGED <<varsB, varsS, varsR, varsI, varsW>>
    /\ dpc = "mkdir"
    /\ fsD' = MkdirParents(fsD)
    /\ dpc' = StepAfter("mkdir")
    /\ UNCHANGED <<darg, dpre>>

DCheckTmp ==
    /\ UNCHANGED <<varsB, varsS, varsR, varsI, varsW>>
    /\ dpc = "chk"
    /\ dpc' = IF TmpConflict(fsD) THEN "raised" ELSE StepAfter("chk")
    /\ UNCHANGED <<fsD, darg, dpre>>

DOpen ==
    /\ UNCHANGED <<varsB, varsS, varsR, varsI, varsW>>
    /\ dpc = "open"
    /\ fsD' = OpenW(fsD)
    /\ dpc' = StepAfter("open")
    /\ UNCHANGED <<darg, dpre>>

\* f.write(...): the stream reaches the file byte by byte
DWrite ==
    /\ UNCHANGED <<varsB, varsS, varsR, varsI, varsW>>
    /\ dpc = "write"
    /\ Written(fsD) # Encode(darg.data, darg.gz)
    /\ fsD' = WriteChunk(fsD, Encode(darg.data, darg.gz))
    /\ UNCHANGED <<dpc, darg, dpre>>

\* the with-block ends: the file is closed with the whole stream in it
DClose ==
    /\ UNCHANGED <<varsB, varsS, varsR, varsI, varsW>>
    /\ dpc = "write"
    /\ Written(fsD) = Encode(darg.data, darg.gz)
    /\ dpc' = StepAfter("write")
    /\ UNCHANGED <<fsD, darg, dpre>>

DExists ==
    /\ UNCHANGED <<varsB, varsS, varsR, varsI, varsW>>
    /\ dpc = "exists"
    /\ dpc' = IF Exists(fsD.tgt) THEN StepAfter("exists") ELSE StepAfter("unlink")
    /\ UNCHANGED <<fsD, darg, dpre>>

DUnlink ==
    /\ UNCHANGED <<varsB, varsS, varsR, varsI, varsW>>
    /\ dpc = "unlink"
    /\ fsD' = UnlinkTarget(fsD)
    /\ dpc' = StepAfter("unlink")
    /\ UNCHANGED <<darg, dpre>>

DRename ==
    /\ UNCHANGED <<varsB, varsS, varsR, varsI, varsW>>
    /\ dpc = "rename"
    /\ IF RenameRaises(fsD)
         THEN dpc' = "raised" /\ UNCHANGED fsD
         ELSE dpc' = StepAfter("rename") /\ fsD' = RenameTmp(fsD)
    /\ UNCHANGED <<darg, dpre>>

\* the writer is stopped between two statements
DKill ==
    /\ UNCHANGED <<varsB, varsS, varsR, varsI, varsW>>
    /\ dpc \notin DTerminal
    /\ dpc' = "killed"
    /\ UNCHANGED <<fsD, darg, dpre>>

NextDump ==
    \/ DCall \/ DTest \/ DMkdir \/ DCheckTmp \/ DOpen \/ DWrite \/ DClose
    \/ DExists \/ DUnlink \/ DRename \/ DKill

SpecDump == InitDump /\ [][NextDump]_vars

\* the writer is inside a call, or has just ended one
InCall == dpc # "idle"
NewContent == File(Encode(darg.data, darg.gz))

DTypeOK ==
    /\ dpc \in DTerminal \cup {"test"} \cup Range(SafeWriteSteps)
    /\ fsD.parent \in BOOLEAN
    /\ (Exists(fsD.tgt) \/ Exists(fsD.tmp)) => fsD.parent

\* the call that ran to completion did what SafeDump says
DAtomicAgrees ==
    dpc \in {"done", "skipped"} =>
        /\ SafeDump(dpre, darg.data, darg.force, darg.gz).fs = fsD
        /\ SafeDump(dpre, darg.data, darg.force, darg.gz).out = dpc

---------------------------------------------------------------------------
\* Properties of safe_dump (specification SpecDump)

\* the running call is one that safe_dump does not skip
NotSkipped == ~(Exists(dpre.tgt) /\ ~darg.force)

\* C6: a safe_dump call that is not skipped and finds "<path>.tmp" already
\* there raises (it never reaches the write, never completes) and leaves the
\* target and the temporary file exactly as they were.
C6_LeftoverTmpRaises ==
    (InCall /\ NotSkipped /\ Exists(dpre.tmp)) =>
        /\ dpc \in {"test", "mkdir", "chk", "raised", "killed"}
        /\ fsD.tgt = dpre.tgt
        /\ fsD.tmp = dpre.tmp

C6_Witness ==
    /\ dpc = "raised"
    /\ Exists(dpre.tgt) /\ darg.force
    /\ Exists(dpre.tmp) /\ dpre.tmp # NewContent
    /\ dpre.tgt # NewContent

\* C7: at every step of a safe_dump call, also one at which the writer is
\* stopped, the target is absent or holds one complete payload: the content it
\* had before the call or the new content. Partial content is at the temporary
\* path only.
C7_TargetNeverPartial ==
    InCall => fsD.tgt \in {Absent, dpre.tgt, NewContent}

C7_Witness ==
    /\ dpc = "killed"
    /\ Exists(fsD.tgt) /\ fsD.tgt = dpre.tgt
    /\ Exists(fsD.tmp) /\ fsD.tmp # NewContent /\ fsD.tmp # dpre.tmp

\* the running call replaces an existing target
Replacing == InCall /\ Exists(dpre.tgt) /\ darg.force

\* C8 as stated: while safe_dump replaces an existing target, a reader sees
\* the complete old content or the complete new content, and never a missing
\* target.
C8_ReplacementAtomic ==
    Replacing => fsD.tgt \in {dpre.tgt, NewContent}

\* C8 as amended: while safe_dump replaces an existing target, a reader sees
\* the complete old content, the complete new content, or no file; the target
\* is missing only after the unlink and before the rename, while the complete
\* new content is at "<path>.tmp".
C8_ReplacementOldNewOrGap ==
    Replacing =>
        \/ fsD.tgt \in {dpre.tgt, NewContent}
        \/ /\ fsD.tgt = Absent
           /\ fsD.tmp = NewContent
           /\ dpc \in {"rename", "killed"}

C8_Witness ==
    /\ dpc = "rename"
    /\ Exists(dpre.tgt) /\ darg.force
    /\ fsD.tgt = Absent
    /\ fsD.tmp = NewContent

\* C9: safe_dump never loses the original file without the new content having
\* been written completely: wherever the writer is stopped, the target still
\* holds the original content, or the complete new content is on disk, at the
\* target or at "<path>.tmp".
C9_OriginalOrNewOnDisk ==
    InCall =>
        \/ fsD.tgt = dpre.tgt
        \/ fsD.tgt = NewContent
        \/ fsD.tmp = NewContent

C9_Witness ==
    /\ dpc = "killed"
    /\ Exists(dpre.tgt) /\ dpre.tgt # NewContent
    /\ fsD.tgt = Absent
    /\ fsD.tmp = NewContent

\* C10: when the target exists and force is false, safe_dump changes nothing:
\* the target, the temporary path and the directory are as before, and the
\* call does not raise, also when a leftover "<path>.tmp" is present.
C10_SkipIsNoOp ==
    (InCall /\ Exists(dpre.tgt) /\ ~darg.force) =>
        /\ fsD = dpre
        /\ dpc \in {"test", "skipped", "killed"}

C10_Witness ==
    /\ dpc = "skipped"
    /\ ~darg.force
    /\ Exists(fsD.tmp)
    /\ fsD.tgt # NewContent

\* C11: a safe_dump call that is not skipped and finds no leftover temporary
\* returns normally, and then the target holds exactly the payload,
\* "<path>.tmp" does not exist and the parent directory exists.
C11_WriteCompletes ==
    /\ (InCall /\ NotSkipped /\ ~Exists(dpre.tmp)) => dpc \notin {"raised", "skipped"}
    /\ dpc = "done" =>
          /\ fsD.tgt = NewContent
          /\ fsD.tmp = Absent
          /\ fsD.parent

C11_Witness ==
    /\ dpc = "done"
    /\ ~dpre.parent
    /\ darg.data # <<>>
    /\ fsD.tgt = File(Encode(darg.data, darg.gz))

\* C36: a safe_dump call that found no "<path>.tmp" does not raise; once it
\* has run to completion the directory (parent, target, no temporary file) is
\* as dump would have left it for the same payload, force and gz, it ended in
\* a write or a skip as dump would, and the message it decided on is dump's.
C36_SafeDumpRefinesDump ==
    (InCall /\ dpre.tmp = Absent) =>
        /\ dpc # "raised"
        /\ dpc \in {"done", "skipped"} =>
              /\ fsD = Dump(dpre, darg.data, darg.force, darg.gz).fs
              /\ dpc = Dump(dpre, darg.data, darg.force, darg.gz).out
              /\ fsD.tmp = Absent
              /\ Decision(dpre, darg.force) = DumpDecision(dpre, darg.force)

C36_Witness ==
    /\ dpc = "done" /\ dpre.tmp = Absent
    /\ Exists(dpre.tgt) /\ darg.force /\ darg.gz
    /\ Len(darg.data) = MaxLen
    /\ fsD.tgt # dpre.tgt /\ fsD.tmp = Absent

---------------------------------------------------------------------------
\* Two processes running safe_dump(data, path, force=True) on one path
\* (specification SpecRace). A name of the directory refers to an inode, an
\* open file object keeps referring to its inode when the name is unlinked or
\* renamed, and each file object writes at its own offset.

RTerminal == {"done", "skipped", "conflict", "unlink_failed", "rename_failed"}

\* the zero byte a write past the end of a file leaves in the gap
Nul == "nul"

\* the inodes a name or an open file object refers to
Live(fs, writers) ==
    {i \in Inodes : \/ fs.tgt = File(i) \/ fs.tmp = File(i)
                    \/ \E w \in Writers : writers[w].fd = i}

\* an inode nothing refers to any more holds nothing
Reclaim(content, fs, writers) ==
    [i \in Inodes |-> IF i \in Live(fs, writers) THEN content[i] ELSE <<>>]

\* write(2) of one byte at offset off
WriteAt(c, off, byte) ==
    LET padded == IF Len(c) < off THEN c \o [k \in 1..(off - Len(c)) |-> Nul] ELSE c
    IN  IF Len(padded) > off THEN [padded EXCEPT ![off + 1] = byte]
        ELSE Append(padded, byte)

\* what a reader of path gets
TargetContent == IF Exists(rfs.tgt) THEN File(ino[rfs.tgt[1]]) ELSE Absent

\* a directory in which the target exists or not, and no temporary file
InitRace ==
    /\ \E ex \in BOOLEAN :
          /\ rfs = [parent |-> TRUE, tgt |-> IF ex THEN File(1) ELSE Absent, tmp |-> Absent]
          /\ ino = [i \in Inodes |-> IF ex /\ i = 1 THEN <<"a">> ELSE <<>>]
    /\ wr = [w \in Writers |-> [pc |-> "idle", data |-> <<>>, fd |-> 0, off |-> 0]]
    /\ raced = FALSE
    /\ IdleD /\ IdleB /\ IdleS /\ IdleR /\ IdleI

RFrame == UNCHANGED <<varsD, varsB, varsS, varsR, varsI>>

\* a process calls safe_dump(data, path, force=True); lines 177-187
RCall ==
    /\ RFrame
    /\ \E w \in Writers, d \in Payloads :
          /\ wr[w].pc = "idle"
          /\ wr' = [wr EXCEPT ![w] = [pc |-> IF SkipsWrite(rfs, TRUE) THEN "skipped"
                                             ELSE SafeWriteSteps[1],
                                      data |-> d, fd |-> 0, off |-> 0]]
    /\ UNCHANGED <<rfs, ino, raced>>

RMkdir ==
    /\ RFrame
    /\ \E w \in Writers :
          /\ wr[w].pc = "mkdir"
          /\ rfs' = MkdirParents(rfs)
          /\ wr' = [wr EXCEPT ![w].pc = StepAfter("mkdir")]
    /\ UNCHANGED <<ino, raced>>

RCheckTmp ==
    /\ RFrame
    /\ \E w \in Writers :
          /\ wr[w].pc = "chk"
          /\ wr' = [wr EXCEPT ![w].pc = IF TmpConflict(rfs) THEN "conflict"
                                        ELSE StepAfter("chk")]
    /\ UNCHANGED <<rfs, ino, raced>>

\* open(tmp_path, "w"): the file is created, or the one that is there is
\* truncated
ROpen ==
    /\ RFrame
    /\ \E w \in Writers :
          /\ wr[w].pc = "open"
          /\ LET i == IF Exists(rfs.tmp) THEN rfs.tmp[1]
                      ELSE CHOOSE k \in Inodes \ Live(rfs, wr) :
                              \A m \in Inodes \ Live(rfs, wr) : k <= m
             IN  /\ rfs' = [rfs EXCEPT !.tmp = File(i)]
                 /\ ino' = [ino EXCEPT ![i] = <<>>]
                 /\ wr' = [wr EXCEPT ![w].fd = i, ![w].off = 0,
                                     ![w].pc = StepAfter("open")]
          /\ raced' = (raced \/ Exists(rfs.tmp))

\* f.write(data): one more byte reaches the inode, at this writer's offset
RWrite ==
    /\ RFrame
    /\ \E w \in Writers :
          /\ wr[w].pc = "write"
          /\ wr[w].off < Len(wr[w].data)
          /\ ino' = [ino EXCEPT ![wr[w].fd] = WriteAt(@, wr[w].off, wr[w].data[wr[w].off + 1])]
          /\ wr' = [wr EXCEPT ![w].off = @ + 1]
    /\ UNCHANGED <<rfs, raced>>

\* the with-block ends: the file object is closed
RClose ==
    /\ RFrame
    /\ \E w \in Writers :
          /\ wr[w].pc = "write"
          /\ wr[w].off = Len(wr[w].data)
          /\ wr' = [wr EXCEPT ![w].fd = 0, ![w].pc = StepAfter("write")]
          /\ ino' = Reclaim(ino, rfs, wr')
    /\ UNCHANGED <<rfs, raced>>

RExists ==
    /\ RFrame
    /\ \E w \in Writers :
          /\ wr[w].pc = "exists"
          /\ wr' = [wr EXCEPT ![w].pc = IF Exists(rfs.tgt) THEN StepAfter("exists")
                                        ELSE StepAfter("unlink")]
    /\ UNCHANGED <<rfs, ino, raced>>

\* path.unlink(); raises when path does not exist
RUnlink ==
    /\ RFrame
    /\ \E w \in Writers :
          /\ wr[w].pc = "unlink"
          /\ IF Exists(rfs.tgt)
               THEN /\ rfs' = UnlinkTarget(rfs)
                    /\ wr' = [wr EXCEPT ![w].pc = StepAfter("unlink")]
               ELSE /\ rfs' = rfs
                    /\ wr' = [wr EXCEPT ![w].pc = "unlink_failed"]
          /\ ino' = Reclaim(ino, rfs', wr')
    /\ UNCHANGED raced

\* tmp_path.rename(path)
RRename ==
    /\ RFrame
    /\ \E w \in Writers :
          /\ wr[w].pc = "rename"
          /\ IF RenameRaises(rfs)
               THEN /\ rfs' = rfs
                    /\ wr' = [wr EXCEPT ![w].pc = "rename_failed"]
               ELSE /\ rfs' = RenameTmp(rfs)
                    /\ wr' = [wr EXCEPT ![w].pc = StepAfter("rename")]
          /\ ino' = Reclaim(ino, rfs', wr')
    /\ UNCHANGED raced

NextRace ==
    \/ RCall \/ RMkdir \/ RCheckTmp \/ ROpen \/ RWrite \/ RClose
    \/ RExists \/ RUnlink \/ RRename

SpecRace == InitRace /\ [][NextRace]_vars

---------------------------------------------------------------------------
\* Properties of two concurrent safe_dump calls (specification SpecRace)

\* C31: two writers can both pass the test for "<path>.tmp" and write the one
\* temporary file; whenever both have ended after one of them had opened
\* "<path>.tmp" while the other's was there, neither of them got the conflict
\* error, and one of them failed at path.unlink() or at tmp_path.rename(path):
\* its payload is not what the call left at the target.
C31_RaceLosesAWrite ==
    (raced /\ \A w \in Writers : wr[w].pc \in RTerminal) =>
        /\ \A w \in Writers : wr[w].pc # "conflict"
        /\ \E w \in Writers : wr[w].pc \in {"unlink_failed", "rename_failed"}

C31_Witness ==
    /\ raced
    /\ wr[1].pc = "done" /\ wr[2].pc = "rename_failed"
    /\ wr[1].data = <<"a", "a">> /\ wr[2].data = <<"b">>
    /\ TargetContent = File(<<"b", "a">>)

---------------------------------------------------------------------------
\* The basis set directory

\* where a file lies: the basis set directory itself, or the directory of
\* equivalent i_equiv
Base == <<>>
Equiv(i) == <<i>>

\* <project>_Clexulator_<id>[_<i>].cc, .o, .so, and the generator's other output
\* (basis.json, variables.json.gz, ...) in that directory
Cc(w) == <<"cc", w>>
ClexulatorO(w) == <<"o", w>>
ClexulatorSo(w) == <<"so", w>>
Aux(w) == <<"aux", w>>

\* BsetOutputData.generated_files: read_optional(generated_files.json)
GeneratedFiles(f) == f

\* BsetOutputData.src_path
\* (faulty variant: the path whether or not it is on record)
SrcPathAlways(f) == <<Cc(Base)>>
SrcPath(f) ==
    LET x == GeneratedFiles(f)
    IN  IF x = None THEN None ELSE x[1].src

\* BsetOutputData.local_src_path
LocalSrcPath(f) ==
    LET x == GeneratedFiles(f)
    IN  IF x = None THEN None ELSE x[1].local

\* ---- external collaborators ----

\* the files casm.bset.write_clexulator writes for a periodic basis set
\* (n = 0) or a local one with n equivalents, in the order it lists them
RECURSIVE EquivPaths(_)
EquivPaths(n) ==
    IF n = 0 THEN <<>>
    ELSE EquivPaths(n - 1) \o <<Cc(Equiv(n - 1)), Aux(Equiv(n - 1))>>

GeneratedPaths(n) == <<Aux(Base), Cc(Base)>> \o EquivPaths(n)

\* the generated_files.json it writes
GeneratorManifest(n) ==
    [all   |-> GeneratedPaths(n),
     src   |-> <<Cc(Base)>>,
     local |-> IF n = 0 THEN None ELSE <<[i \in 1..n |-> Cc(Equiv(i - 1))]>>]

\* libcasm.clexulator.make_clexulator(source): compiles the source into the
\* object and shared-library files beside it; fails without the source
CompileFails(d, srcs) == ~(srcs \subseteq d)
CompileOutputs(w) == {ClexulatorO(w), ClexulatorSo(w)}

\* ---- BsetData ----

\* relpaths appended to the list, each unless it is in the list already
\* (faulty variants: a new relpath is put in front of the list; a relpath is
\* appended whether or not it is in the list)
RECURSIVE MergeAllInFront(_, _)
MergeAllInFront(all, relpaths) ==
    IF relpaths = <<>> THEN all
    ELSE MergeAllInFront(IF Head(relpaths) \in Range(all) THEN all ELSE <<Head(relpaths)>> \o all,
                         Tail(relpaths))
AppendAll(all, relpaths) == all \o relpaths
RECURSIVE MergeAll(_, _)
MergeAll(all, relpaths) ==
    IF relpaths = <<>> THEN all
    ELSE MergeAll(IF Head(relpaths) \in Range(all) THEN all ELSE Append(all, Head(relpaths)),
                  Tail(relpaths))

\* BsetData._update_generated_files: [gf, tmp, out]
\* (faulty variants: nothing is registered; the file is written whether or
\* not the list has changed)
RegisterNothing(f, tmp, abspaths) == [gf |-> f, tmp |-> tmp, out |-> "done"]
DumpsUnchanged(f, tmp, abspaths) ==
    LET x == GeneratedFiles(f)
        generated_files == IF x = None THEN [all |-> <<>>, src |-> None, local |-> None]
                           ELSE x[1]
        merged == [generated_files EXCEPT !.all = MergeAll(generated_files.all, abspaths)]
        dumped == SafeDump([parent |-> TRUE, tgt |-> f, tmp |-> tmp], merged, TRUE, FALSE)
    IN  [gf |-> dumped.fs.tgt, tmp |-> dumped.fs.tmp, out |-> dumped.out]
UpdateGeneratedFiles(f, tmp, abspaths) ==
    LET x == GeneratedFiles(f)
        generated_files == IF x = None THEN [all |-> <<>>, src |-> None, local |-> None]
                           ELSE x[1]
        merged == [generated_files EXCEPT !.all = MergeAll(generated_files.all, abspaths)]
        changed == merged.all # generated_files.all
        dumped == SafeDump([parent |-> TRUE, tgt |-> f, tmp |-> tmp], merged, TRUE, FALSE)
    IN  IF changed
        THEN [gf |-> dumped.fs.tgt, tmp |-> dumped.fs.tmp, out |-> dumped.out]
        ELSE [gf |-> f, tmp |-> tmp, out |-> "done"]

\* make_clexulator, lines 755-767: compile, then register the outputs
CompileAndRegister(d, f, tmp) ==
    IF CompileFails(d, {SrcPath(f)[1]})
    THEN [disk |-> d, gf |-> f, tmp |-> tmp, out |-> "raised", invoked |-> 1]
    ELSE LET compiled == d \cup CompileOutputs(Base)
             reg == UpdateGeneratedFiles(f, tmp, <<ClexulatorO(Base), ClexulatorSo(Base)>>)
         IN  [disk |-> compiled, gf |-> reg.gf, tmp |-> reg.tmp, invoked |-> 1,
              out |-> IF reg.out = "raised" THEN "raised" ELSE "handle"]

\* BsetData.make_clexulator: [disk, gf, tmp, out, invoked]
\* (faulty variant: no compiler invocation once the outputs are on disk)
MakeClexulatorCached(d, f, tmp) ==
    IF SrcPath(f) = None
    THEN [disk |-> d, gf |-> f, tmp |-> tmp, out |-> "None", invoked |-> 0]
    ELSE IF CompileOutputs(Base) \subseteq d
    THEN [disk |-> d, gf |-> f, tmp |-> tmp, out |-> "handle", invoked |-> 0]
    ELSE CompileAndRegister(d, f, tmp)
MakeClexulator(d, f, tmp) ==
    LET src_path == SrcPath(f)
    IN  IF src_path = None
        THEN [disk |-> d, gf |-> f, tmp |-> tmp, out |-> "None", invoked |-> 0]
        ELSE CompileAndRegister(d, f, tmp)

\* the abspaths make_local_clexulator collects: for i_equiv, path in enumerate(local_src_path)
\* (faulty variant: the pair of the prototype only)
LocalObjectPathsPrototypeOnly(n) ==
    IF n = 0 THEN <<>> ELSE <<ClexulatorO(Equiv(0)), ClexulatorSo(Equiv(0))>>
RECURSIVE LocalObjectPaths(_)
LocalObjectPaths(n) ==
    IF n = 0 THEN <<>>
    ELSE LocalObjectPaths(n - 1) \o <<ClexulatorO(Equiv(n - 1)), ClexulatorSo(Equiv(n - 1))>>

\* BsetData.make_local_clexulator: [disk, gf, tmp, out, invoked]
MakeLocalClexulator(d, f, tmp) ==
    LET local_src_path == LocalSrcPath(f)
    IN  IF local_src_path = None
        THEN [disk |-> d, gf |-> f, tmp |-> tmp, out |-> "None", invoked |-> 0]
        ELSE LET paths == local_src_path[1]
                 n == Len(paths)
             IN  IF SrcPath(f) = None \/ CompileFails(d, Range(paths) \cup {Cc(Base)})
                 THEN [disk |-> d, gf |-> f, tmp |-> tmp, out |-> "raised", invoked |-> 1]
                 ELSE LET compiled == d \cup UNION {CompileOutputs(Equiv(i - 1)) : i \in 1..n}
                          reg == UpdateGeneratedFiles(f, tmp, LocalObjectPaths(n))
                      IN  [disk |-> compiled, gf |-> reg.gf, tmp |-> reg.tmp, invoked |-> 1,
                           out |-> IF reg.out = "raised" THEN "raised" ELSE "handle"]

\* bspecs.json, writer_params.json and meta.json as paths of the basis set directory
BspecsJson == <<"bspecs.json", Base>>
WriterParamsJson == <<"writer_params.json", Base>>
MetaJson == <<"meta.json", Base>>

\* BsetData.clean: the listed files that exist
\* (faulty variants: the compiled files are left behind; every file of the
\* directory is removed once there is a manifest; every file of the directory
\* is removed when there is no manifest)
RemovesDirectory(d, f) == IF f = None THEN {} ELSE d
RemovesUntracked(d, f) == IF f = None THEN d ELSE {file \in Range(f[1].all) : file \in d}
CleanSourcesOnly(d, f) ==
    IF f = None THEN {} ELSE {p \in d \cap Range(f[1].all) : p[1] \in {"cc", "aux"}}
ToRemove(d, f) ==
    LET generated_files == GeneratedFiles(f)
    IN  IF generated_files = None THEN {}
        ELSE {file \in Range(generated_files[1].all) : file \in d}

\* build, lines 608-617: the checks on entry fail
\* (faulty variant: the neighbor list is not checked)
BuildWithoutNeighborList(sp, nl) == sp = None
BuildRejects(sp, nl) == sp = None \/ ~nl

\* update, lines 654-663: the checks on entry fail
\* (faulty variant: the neighbor list is not checked)
NeighborListNotChecked(nl, sp) == sp = None
UpdateRejects(nl, sp) == ~nl \/ sp = None

\* update, lines 692-693: `if no_compile: return`
\* (faulty variant: the flag is ignored)
NoCompileIgnored(flags) == FALSE
NoCompileReturns(flags) == flags.no_compile

\* the statements of update() in program order
\* (faulty variant: the generator runs before clean)
GenerateBeforeCleanSteps == <<"upd_gen", "upd_clean", "upd_check", "upd_compile">>
UpdateSteps == <<"upd_clean", "upd_gen", "upd_check", "upd_compile">>

UStepAfter(p) ==
    LET i == CHOOSE k \in 1..Len(UpdateSteps) : UpdateSteps[k] = p
    IN  IF i = Len(UpdateSteps) THEN "idle" ELSE UpdateSteps[i + 1]

---------------------------------------------------------------------------
\* BsetData: the calls (specification Spec)

\* BsetData.__init__ on a directory without generated files; a writer of
\* generated_files.json stopped earlier may have left its temporary file
Init ==
    /\ disk = {} /\ gf = Absent
    /\ gftmp \in {Absent, File("leftover")}
    /\ specs = None
    /\ nlist \in BOOLEAN
    /\ pc = "idle" /\ uflags = [no_compile |-> FALSE, only_compile |-> FALSE]
    /\ log = <<>> /\ lastOp = "init" /\ result = "ok" /\ invoked = 0 /\ removed = {}
    /\ raisedEver = FALSE /\ lazy = FALSE /\ kMake = 0 /\ kComp = 0 /\ upre = None /\ lastUpd = None
    /\ IdleD /\ IdleS /\ IdleR /\ IdleI /\ IdleW

\* a call of method op returned res (or raised) after inv compiler invocations
Returns(op, res, inv) ==
    /\ lastOp' = op
    /\ result' = res
    /\ invoked' = inv
    /\ raisedEver' = (raisedEver \/ res = "raised")
    /\ IF op = "make_clexulator" /\ lazy
         THEN lazy' = TRUE /\ kMake' = kMake + 1 /\ kComp' = kComp + inv
         ELSE IF op = "update" /\ res = "ok" /\ uflags'.no_compile /\ ~uflags'.only_compile
         THEN lazy' = TRUE /\ kMake' = 0 /\ kComp' = 0
         ELSE lazy' = FALSE /\ kMake' = 0 /\ kComp' = 0
    /\ upre' = IF op # "update" THEN None
               ELSE IF pc = "idle" THEN <<[disk |-> disk, gf |-> gf, gftmp |-> gftmp]>>
               ELSE upre
    /\ lastUpd' =
          IF op = "update" /\ res = "running" THEN lastUpd
          ELSE IF op = "update" /\ res = "ok"
          THEN IF lastUpd # None /\ lastUpd[1].specs = specs /\ lastUpd[1].flags = uflags'
               THEN <<[lastUpd[1] EXCEPT !.n = 2]>>
               ELSE <<[specs |-> specs, flags |-> uflags', gf |-> gf', n |-> 1]>>
          ELSE None

\* a method that reads and writes none of bspecs.json, writer_params.json and
\* meta.json, and none of version, linear_function_indices and meta; it is
\* not load(), and it announces no removal
StoreKept ==
    /\ UNCHANGED <<version, linear_function_indices, meta, bspecs_json, writer_params_json,
                   meta_json, bspecs_tmp, writer_params_tmp, meta_tmp>>
    /\ prevOp' = <<>> /\ said' = {}

\* the files of the basis set directory that exist, besides the temporary ones
StoreFiles ==
    {q \in {BspecsJson} : Exists(bspecs_json)}
    \cup {q \in {WriterParamsJson} : Exists(writer_params_json)}
    \cup {q \in {MetaJson} : Exists(meta_json)}

\* clean, lines 423-429: each listed path that exists is unlinked; nothing else
\* is written
CleanDirectory ==
    /\ removed' = ToRemove(disk \cup StoreFiles, gf)
    /\ disk' = disk \ removed'
    /\ bspecs_json' = IF BspecsJson \in removed' THEN Absent ELSE bspecs_json
    /\ writer_params_json' = IF WriterParamsJson \in removed' THEN Absent
                             ELSE writer_params_json
    /\ meta_json' = IF MetaJson \in removed' THEN Absent ELSE meta_json
    /\ UNCHANGED <<version, linear_function_indices, meta, bspecs_tmp,
                   writer_params_tmp, meta_tmp>>
    /\ prevOp' = <<>> /\ said' = {}

\* uflags and log describe the last call when it was update(), and removed
\* the last call when it was update() or clean()
LastUpdateForgotten ==
    /\ uflags' = [no_compile |-> FALSE, only_compile |-> FALSE]
    /\ log' = <<>> /\ removed' = {}

\* BsetData.set_bspecs
SetBspecs ==
    /\ StoreKept /\ UNCHANGED <<varsD, varsR, varsI, varsW>>
    /\ pc = "idle"
    /\ \E x \in {None} \cup {<<n>> : n \in 0..MaxEquiv} : specs' = x
    /\ Returns("set_bspecs", "ok", 0)
    /\ LastUpdateForgotten /\ UNCHANGED <<disk, gf, gftmp, nlist, pc>>

\* BsetData.clean
Clean ==
    /\ UNCHANGED <<varsD, varsR, varsI, varsW>>
    /\ pc = "idle"
    /\ CleanDirectory
    /\ Returns("clean", "ok", 0)
    /\ uflags' = [no_compile |-> FALSE, only_compile |-> FALSE] /\ log' = <<>>
    /\ UNCHANGED <<gf, gftmp, specs, nlist, pc>>

\* BsetData.build: the checks, then build_cluster_functions(...), which
\* returns the builder and writes nothing
Build ==
    /\ StoreKept /\ UNCHANGED <<varsD, varsR, varsI, varsW>>
    /\ pc = "idle"
    /\ Returns("build", IF BuildRejects(specs, nlist) THEN "raised" ELSE "builder", 0)
    /\ LastUpdateForgotten /\ UNCHANGED <<disk, gf, gftmp, specs, nlist, pc>>

\* BsetData.make_clexulator
MakeClexulatorCall ==
    /\ StoreKept /\ UNCHANGED <<varsD, varsR, varsI, varsW>>
    /\ pc = "idle"
    /\ lazy => kMake < MaxCalls
    /\ LET r == MakeClexulator(disk, gf, gftmp)
       IN  /\ disk' = r.disk /\ gf' = r.gf /\ gftmp' = r.tmp
           /\ Returns("make_clexulator", r.out, r.invoked)
    /\ LastUpdateForgotten /\ UNCHANGED <<specs, nlist, pc>>

\* BsetData.make_local_clexulator
MakeLocalClexulatorCall ==
    /\ StoreKept /\ UNCHANGED <<varsD, varsR, varsI, varsW>>
    /\ pc = "idle"
    /\ LET r == MakeLocalClexulator(disk, gf, gftmp)
       IN  /\ disk' = r.disk /\ gf' = r.gf /\ gftmp' = r.tmp
           /\ Returns("make_local_clexulator", r.out, r.invoked)
    /\ LastUpdateForgotten /\ UNCHANGED <<specs, nlist, pc>>

\* BsetData.__repr__: the summary text; with a payload it calls
\* self.make_clexulator() (line 447) and describes the handle it gets
Repr ==
    /\ StoreKept /\ UNCHANGED <<varsD, varsR, varsI, varsW>>
    /\ pc = "idle"
    /\ IF specs = None
         THEN /\ UNCHANGED <<disk, gf, gftmp>>
              /\ Returns("__repr__", "text", 0)
         ELSE LET r == MakeClexulator(disk, gf, gftmp)
              IN  /\ disk' = r.disk /\ gf' = r.gf /\ gftmp' = r.tmp
                  /\ Returns("__repr__", IF r.out = "raised" THEN "raised" ELSE "text",
                             r.invoked)
    /\ LastUpdateForgotten /\ UNCHANGED <<specs, nlist, pc>>

\* update(no_compile, only_compile), lines 654-664: the checks on entry
UpdateBegin ==
    /\ StoreKept /\ UNCHANGED <<varsD, varsR, varsI, varsW>>
    /\ pc = "idle"
    /\ \E nc \in BOOLEAN, oc \in BOOLEAN :
          /\ uflags' = [no_compile |-> nc, only_compile |-> oc]
          /\ log' = <<>>
          /\ IF UpdateRejects(nlist, specs)
               THEN pc' = "idle" /\ Returns("update", "raised", 0)
               ELSE /\ pc' = IF oc THEN "upd_check" ELSE UpdateSteps[1]
                    /\ Returns("update", "running", 0)
    /\ UNCHANGED <<disk, gf, gftmp, specs, nlist, removed>>

\* line 665: self.clean(verbose=verbose)
UpdateClean ==
    /\ UNCHANGED <<varsD, varsR, varsI, varsW>>
    /\ pc = "upd_clean"
    /\ CleanDirectory
    /\ log' = Append(log, "clean")
    /\ pc' = UStepAfter("upd_clean")
    /\ UNCHANGED <<gf, gftmp, specs, nlist, uflags, lastOp, result, invoked,
                   raisedEver, lazy, kMake, kComp, upre, lastUpd>>

\* lines 671-683: write_clexulator(...)
UpdateGenerate ==
    /\ StoreKept /\ UNCHANGED <<varsD, varsR, varsI, varsW>>
    /\ pc = "upd_gen"
    /\ disk' = disk \cup Range(GeneratedPaths(specs[1]))
    /\ gf' = File(GeneratorManifest(specs[1]))
    /\ log' = Append(log, "generate")
    /\ pc' = UStepAfter("upd_gen")
    /\ UNCHANGED <<gftmp, specs, nlist, uflags, lastOp, result, invoked, removed,
                   raisedEver, lazy, kMake, kComp, upre, lastUpd>>

\* lines 695-700
UpdateCheck ==
    /\ StoreKept /\ UNCHANGED <<varsD, varsR, varsI, varsW>>
    /\ pc = "upd_check"
    /\ UNCHANGED <<disk, gf, gftmp, specs, nlist, uflags, log, removed>>
    /\ IF NoCompileReturns(uflags)
         THEN pc' = "idle" /\ Returns("update", "ok", 0)
         ELSE IF SrcPath(gf) = None
         THEN pc' = "idle" /\ Returns("update", "raised", 0)
         ELSE pc' = UStepAfter("upd_check")
              /\ UNCHANGED <<lastOp, result, invoked, raisedEver, lazy, kMake, kComp, upre, lastUpd>>

\* lines 702-718
UpdateCompile ==
    /\ StoreKept /\ UNCHANGED <<varsD, varsR, varsI, varsW>>
    /\ pc = "upd_compile"
    /\ UNCHANGED <<specs, nlist, uflags, removed>>
    /\ LET r == IF LocalSrcPath(gf) = None
                THEN MakeClexulator(disk, gf, gftmp)
                ELSE MakeLocalClexulator(disk, gf, gftmp)
       IN  /\ disk' = r.disk /\ gf' = r.gf /\ gftmp' = r.tmp
           /\ log' = IF r.invoked > 0 THEN Append(log, "compile") ELSE log
           /\ Returns("update", IF r.out = "raised" THEN "raised" ELSE "ok", r.invoked)
    /\ pc' = UStepAfter("upd_compile")

Next ==
    \/ SetBspecs \/ Clean \/ Build \/ MakeClexulatorCall \/ MakeLocalClexulatorCall \/ Repr
    \/ UpdateBegin \/ UpdateClean \/ UpdateGenerate \/ UpdateCheck \/ UpdateCompile

Spec == Init /\ [][Next]_vars

---------------------------------------------------------------------------
\* BsetData: load and commit (specification SpecStore)

\* largest index in linear_function_indices
MaxIdx == 1

\* JSON documents; Missing is a key an object does not have
JNull == <<"null">>
JString(s) == <<"string", s>>
JArray(l) == <<"array", l>>
JObject(m) == <<"object", m>>
Missing == <<>>

\* json.dumps of an Optional[str] / an Optional[list[int]], json.loads of either
DumpStr(v) == IF v = None THEN JNull ELSE JString(v[1])
DumpList(v) == IF v = None THEN JNull ELSE JArray(v[1])
Loads(j) == IF j = JNull THEN None ELSE <<j[2]>>

\* dict.get(key, default) on a parsed JSON object
DictGet(data, key, default) == IF data[key] = Missing THEN default ELSE Loads(data[key])

\* read_optional(path, default): the parsed file, or default without the file
ReadOptional(f, default) == IF Exists(f) THEN f[1] ELSE default

\* the indices of S in increasing order
RECURSIVE Sorted(_)
Sorted(S) ==
    IF S = {} THEN <<>>
    ELSE LET least == CHOOSE x \in S : \A y \in S : x <= y
         IN  <<least>> \o Sorted(S \ {least})

\* the lists a set of linear function indices in 0..MaxIdx is kept as
IndexLists == {Sorted(S) : S \in SUBSET (0..MaxIdx)}

\* a ClexBasisSpecs is <<n>>; <<n, "dict">> is the same content as a plain dict
IsClexBasisSpecs(x) == Len(x) = 1
ClexBasisSpecsValues == {<<0>>, <<1>>}
NotClexBasisSpecs == <<0, "dict">>

\* ClexBasisSpecs.to_dict / ClexBasisSpecs.from_dict
ToDict(x) == JObject(x[1])
FromDict(data) == <<data[2]>>

\* meta: a dict with the given keys, or a value of another type
Dict(keys) == [type |-> "dict", keys |-> keys]
NotDict == [type |-> "list", keys |-> {"description"}]
MetaValues == {Dict({}), Dict({"description"}), NotDict}

Versions == {<<"v1.basic">>}
VersionValues == {<<"v1.basic">>, <<"v1.diff">>}

\* load, lines 329-332: writer_params.json, or {} without it
\* (faulty variant: without the file the attributes are left as they are)
ReadWriterParamsIfPresent(self, w) ==
    IF ~Exists(w) THEN self
    ELSE [self EXCEPT !.linear_function_indices = DictGet(w[1], "linear_function_indices", None),
                      !.version = DictGet(w[1], "version", <<"v1.basic">>)]
ReadWriterParams(self, w) ==
    LET data == ReadOptional(w, [version |-> Missing, linear_function_indices |-> Missing])
    IN  [self EXCEPT !.linear_function_indices = DictGet(data, "linear_function_indices", None),
                     !.version = DictGet(data, "version", <<"v1.basic">>)]

\* load, lines 311-313: meta.json, or dict() without it
ReadMeta(self, m) ==
    LET data == ReadOptional(m, JObject({}))
    IN  [self EXCEPT !.meta = Dict(data[2])]

\* load, lines 315-327: bspecs.json
\* faulty variant: the payload is cleared whether or not bspecs.json exists
ReadBspecsAlwaysClears(self, b) ==
    [self EXCEPT !.clex_basis_specs = None,
                 !.linear_function_indices = None,
                 !.version = None]

ReadBspecs(self, b) ==
    LET data == ReadOptional(b, JNull)
    IN  IF data # JNull
        THEN [self EXCEPT !.clex_basis_specs = FromDict(data)]
        ELSE [self EXCEPT !.clex_basis_specs = None,
                          !.linear_function_indices = None,
                          !.version = None]

\* BsetData.load: the attributes after the call
Load(self, d) ==
    ReadWriterParams(ReadBspecs(ReadMeta(self, d.meta_json), d.bspecs_json),
                     d.writer_params_json)

\* commit, lines 344-359: the validation fails
\* (faulty variant: meta is not validated)
MetaNotValidated(self) ==
    \/ ~IsClexBasisSpecs(self.clex_basis_specs)
    \/ self.version \notin Versions
CommitInvalid(self) ==
    \/ ~IsClexBasisSpecs(self.clex_basis_specs)
    \/ self.version \notin Versions
    \/ self.meta.type # "dict"

\* commit, lines 373-376: the document written to writer_params.json
\* (faulty variant: the restriction list is left out)
WriterParamsVersionOnly(self) ==
    [version |-> DumpStr(self.version), linear_function_indices |-> Missing]
WriterParams(self) ==
    [version |-> DumpStr(self.version),
     linear_function_indices |-> DumpList(self.linear_function_indices)]

\* safe_dump(data, path, quiet=False, force=True) on one file: [tgt, tmp, out]
DumpJson(tgt, tmp, data) ==
    LET r == SafeDump([parent |-> TRUE, tgt |-> tgt, tmp |-> tmp], data, TRUE, FALSE)
    IN  [tgt |-> r.fs.tgt, tmp |-> r.fs.tmp, out |-> r.out]

\* commit, lines 361-390: bspecs.json and writer_params.json: [d, out, said]
CommitBspecs(self, d) ==
    IF self.clex_basis_specs # None
    THEN LET r1 == DumpJson(d.bspecs_json, d.bspecs_tmp, ToDict(self.clex_basis_specs))
             d1 == [d EXCEPT !.bspecs_json = r1.tgt, !.bspecs_tmp = r1.tmp]
             r2 == DumpJson(d1.writer_params_json, d1.writer_params_tmp, WriterParams(self))
             d2 == [d1 EXCEPT !.writer_params_json = r2.tgt, !.writer_params_tmp = r2.tmp]
         IN  IF r1.out = "raised" THEN [d |-> d, out |-> "raised", said |-> {}]
             ELSE IF r2.out = "raised" THEN [d |-> d1, out |-> "raised", said |-> {}]
             ELSE [d |-> d2, out |-> "ok", said |-> {}]
    ELSE IF Exists(d.bspecs_json)
    THEN IF Exists(d.writer_params_json)
         THEN [d |-> [d EXCEPT !.bspecs_json = Absent, !.writer_params_json = Absent],
               out |-> "ok", said |-> {"bspecs.json", "writer_params.json"}]
         ELSE [d |-> [d EXCEPT !.bspecs_json = Absent],
               out |-> "raised", said |-> {"bspecs.json", "writer_params.json"}]
    ELSE [d |-> d, out |-> "ok", said |-> {}]

\* commit, lines 392-403: meta.json: [d, out, said]
\* (faulty variant: an empty meta leaves the file in place)
CommitMetaNoDelete(self, d) ==
    IF self.meta.keys # {}
    THEN LET r == DumpJson(d.meta_json, d.meta_tmp, JObject(self.meta.keys))
         IN  [d |-> [d EXCEPT !.meta_json = r.tgt, !.meta_tmp = r.tmp],
              out |-> IF r.out = "raised" THEN "raised" ELSE "ok", said |-> {}]
    ELSE [d |-> d, out |-> "ok", said |-> {}]
CommitMeta(self, d) ==
    IF self.meta.keys # {}
    THEN LET r == DumpJson(d.meta_json, d.meta_tmp, JObject(self.meta.keys))
         IN  [d |-> [d EXCEPT !.meta_json = r.tgt, !.meta_tmp = r.tmp],
              out |-> IF r.out = "raised" THEN "raised" ELSE "ok", said |-> {}]
    ELSE IF Exists(d.meta_json)
    THEN [d |-> [d EXCEPT !.meta_json = Absent], out |-> "ok", said |-> {"meta.json"}]
    ELSE [d |-> d, out |-> "ok", said |-> {}]

\* BsetData.commit: [d, out, said]
Commit(self, d) ==
    IF CommitInvalid(self) THEN [d |-> d, out |-> "raised", said |-> {}]
    ELSE LET r == CommitBspecs(self, d)
             m == CommitMeta(self, r.d)
         IN  IF r.out = "raised" THEN r
             ELSE [d |-> m.d, out |-> m.out, said |-> r.said \cup m.said]

\* the attributes of the BsetData, and the files of its directory
Self ==
    [clex_basis_specs |-> specs, version |-> version,
     linear_function_indices |-> linear_function_indices, meta |-> meta]
Dir ==
    [bspecs_json |-> bspecs_json, writer_params_json |-> writer_params_json,
     meta_json |-> meta_json, bspecs_tmp |-> bspecs_tmp,
     writer_params_tmp |-> writer_params_tmp, meta_tmp |-> meta_tmp]

\* the attributes __init__ sets before it calls load(), lines 265-284
Constructed ==
    [clex_basis_specs |-> None, version |-> <<"v1.basic">>,
     linear_function_indices |-> None, meta |-> Dict({})]

\* the documents a writer_params.json may hold: those commit() writes, an empty
\* object, and one naming a version this release does not support
ParamsDocuments ==
    {[version |-> JString("v1.basic"), linear_function_indices |-> DumpList(l)] :
        l \in {None} \cup {<<x>> : x \in IndexLists}}
    \cup {[version |-> Missing, linear_function_indices |-> Missing],
          [version |-> JString("v1.diff"), linear_function_indices |-> JArray(<<0>>)]}

SelfIs(s) ==
    /\ specs' = s.clex_basis_specs /\ version' = s.version
    /\ linear_function_indices' = s.linear_function_indices /\ meta' = s.meta

DirIs(d) ==
    /\ bspecs_json' = d.bspecs_json /\ writer_params_json' = d.writer_params_json
    /\ meta_json' = d.meta_json /\ bspecs_tmp' = d.bspecs_tmp
    /\ writer_params_tmp' = d.writer_params_tmp /\ meta_tmp' = d.meta_tmp

\* BsetData.__init__ on a directory holding any of the three files; a writer
\* stopped earlier may have left one temporary file
InitStore ==
    /\ bspecs_json \in {Absent} \cup {File(ToDict(x)) : x \in ClexBasisSpecsValues}
    /\ writer_params_json \in {Absent} \cup {File(x) : x \in ParamsDocuments}
    /\ meta_json \in {Absent, File(JObject({"description"}))}
    /\ \E left \in {"none", "bspecs", "writer_params", "meta"} :
          /\ bspecs_tmp = IF left = "bspecs" THEN File("leftover") ELSE Absent
          /\ writer_params_tmp = IF left = "writer_params" THEN File("leftover") ELSE Absent
          /\ meta_tmp = IF left = "meta" THEN File("leftover") ELSE Absent
    /\ LET s == Load(Constructed, Dir)
       IN  /\ specs = s.clex_basis_specs /\ version = s.version
           /\ linear_function_indices = s.linear_function_indices /\ meta = s.meta
    /\ prevOp = <<>> /\ said = {}
    /\ disk = {} /\ gf = Absent /\ gftmp = Absent /\ nlist = TRUE
    /\ pc = "idle" /\ uflags = [no_compile |-> FALSE, only_compile |-> FALSE]
    /\ log = <<>> /\ lastOp = "init" /\ result = "ok" /\ invoked = 0 /\ removed = {}
    /\ raisedEver = FALSE /\ lazy = FALSE /\ kMake = 0 /\ kComp = 0 /\ upre = None /\ lastUpd = None
    /\ IdleD /\ IdleR /\ IdleI /\ IdleW

\* the values the model assigns to each attribute
AttributeValues ==
    [clex_basis_specs |-> {None, NotClexBasisSpecs} \cup ClexBasisSpecsValues,
     version |-> VersionValues,
     linear_function_indices |-> {None} \cup {<<l>> : l \in IndexLists},
     meta |-> MetaValues]

\* a call of load() or commit(), or an assignment, ended with res
StoreReturns(op, res) ==
    /\ pc = "idle"
    /\ prevOp' = IF op = "load" THEN <<lastOp, result>> ELSE <<>>
    /\ Returns(op, res, 0)
    /\ LastUpdateForgotten /\ UNCHANGED <<disk, gf, gftmp, nlist, pc>>
    /\ UNCHANGED <<varsD, varsR, varsI, varsW>>

\* bset.clex_basis_specs = ..., bset.version = ..., bset.linear_function_indices = ...,
\* bset.meta = ...: the public attributes are assigned
Assign ==
    /\ \E attr \in DOMAIN Self : \E x \in AttributeValues[attr] :
          SelfIs([Self EXCEPT ![attr] = x])
    /\ said' = {}
    /\ UNCHANGED <<bspecs_json, writer_params_json, meta_json, bspecs_tmp,
                   writer_params_tmp, meta_tmp>>
    /\ StoreReturns("assign", "ok")

\* BsetData.load
LoadCall ==
    /\ SelfIs(Load(Self, Dir))
    /\ said' = {}
    /\ UNCHANGED <<bspecs_json, writer_params_json, meta_json, bspecs_tmp,
                   writer_params_tmp, meta_tmp>>
    /\ StoreReturns("load", "ok")

\* BsetData.commit
CommitCall ==
    /\ LET r == Commit(Self, Dir)
       IN  /\ DirIs(r.d)
           /\ said' = r.said
           /\ StoreReturns("commit", r.out)
    /\ UNCHANGED <<specs, version, linear_function_indices, meta>>

NextStore == Assign \/ LoadCall \/ CommitCall

SpecStore == InitStore /\ [][NextStore]_vars

---------------------------------------------------------------------------
\* Properties of load and commit (specification SpecStore)

\* C12: a load() that follows a commit() that returned normally leaves the
\* payload, the version and linear_function_indices as they were at the commit.
C12_RoundTrip ==
    [][(lastOp = "commit" /\ result = "ok" /\ lastOp' = "load") =>
          /\ specs' = specs
          /\ version' = version
          /\ linear_function_indices' = linear_function_indices]_vars

C12_Witness ==
    /\ lastOp = "load" /\ prevOp = <<"commit", "ok">>
    /\ specs = <<1>>
    /\ linear_function_indices = <<(<<0, 1>>)>>
    /\ writer_params_json # Absent

\* C13: a commit() whose payload is not a ClexBasisSpecs, whose version is not
\* supported or whose meta is not a dict raises, and bspecs.json,
\* writer_params.json and meta.json are as they were before the call.
C13_InvalidRaisesBeforeWrite ==
    [][(lastOp' = "commit" /\ (\/ Len(specs) # 1
                               \/ version # <<"v1.basic">>
                               \/ meta.type # "dict")) =>
          /\ result' = "raised"
          /\ bspecs_json' = bspecs_json
          /\ writer_params_json' = writer_params_json
          /\ meta_json' = meta_json]_vars

C13_Witness ==
    /\ lastOp = "commit" /\ result = "raised"
    /\ Len(specs) = 1 /\ version = <<"v1.basic">> /\ meta.type # "dict"
    /\ bspecs_tmp = Absent /\ writer_params_tmp = Absent /\ meta_tmp = Absent
    /\ bspecs_json # Absent /\ bspecs_json # File(JObject(specs[1]))
    /\ meta_json = Absent

\* C14 (as stated): after commit() with clex_basis_specs None the call has
\* succeeded and neither bspecs.json nor writer_params.json exists.
C14_NullPayloadDeletes ==
    (lastOp = "commit" /\ specs = None) =>
        /\ result = "ok"
        /\ bspecs_json = Absent
        /\ writer_params_json = Absent

\* C15 (as stated): after load() with bspecs.json missing the payload, the
\* version and linear_function_indices are all None.
C15_MissingPayloadClears ==
    (lastOp = "load" /\ bspecs_json = Absent) =>
        /\ specs = None
        /\ version = None
        /\ linear_function_indices = None

\* C16: load() with writer_params.json missing and bspecs.json present sets
\* version to "v1.basic" and linear_function_indices to None whatever they
\* were; and each attribute load() sets is read from its own file alone:
\* meta from meta.json, the payload from bspecs.json, version and
\* linear_function_indices from writer_params.json.
C16_FilesReadIndependently ==
    [][lastOp' = "load" =>
          /\ (writer_params_json = Absent /\ bspecs_json # Absent) =>
                (version' = <<"v1.basic">> /\ linear_function_indices' = None)
          /\ meta' = [type |-> "dict",
                      keys |-> IF meta_json = Absent THEN {} ELSE meta_json[1][2]]
          /\ specs' = (IF bspecs_json = Absent THEN None ELSE <<bspecs_json[1][2]>>)
          /\ writer_params_json # Absent =>
                LET data == writer_params_json[1]
                IN  /\ version' = (IF data.version = <<>> THEN <<"v1.basic">>
                                   ELSE <<data.version[2]>>)
                    /\ linear_function_indices' =
                          (IF data.linear_function_indices \in {<<>>, <<"null">>} THEN None
                           ELSE <<data.linear_function_indices[2]>>)]_vars

C16_Witness ==
    /\ lastOp = "load" /\ prevOp = <<"assign", "ok">>
    /\ writer_params_json = Absent /\ bspecs_json # Absent /\ meta_json # Absent
    /\ version = <<"v1.basic">> /\ linear_function_indices = None

\* C17: after a commit() that returned normally meta.json holds the in-memory
\* meta when meta is not empty, and does not exist when meta is empty.
C17_MetaWrittenIffNonEmpty ==
    (lastOp = "commit" /\ result = "ok") =>
        /\ meta.keys # {} => meta_json = File(<<"object", meta.keys>>)
        /\ meta.keys = {} => meta_json = Absent

C17_Witness ==
    /\ lastOp = "commit" /\ result = "ok"
    /\ meta.keys = {} /\ meta_json = Absent
    /\ "meta.json" \in said

\* C32: a commit() that raises has changed none of bspecs.json,
\* writer_params.json and meta.json.
C32_CommitAllOrNothing ==
    [][(lastOp' = "commit" /\ result' = "raised") =>
          UNCHANGED <<bspecs_json, writer_params_json, meta_json>>]_vars

---------------------------------------------------------------------------
\* BsetData: every method (specification SpecLife)

NextLife ==
    \/ SetBspecs \/ Clean \/ Build \/ MakeClexulatorCall \/ MakeLocalClexulatorCall \/ Repr
    \/ UpdateBegin \/ UpdateClean \/ UpdateGenerate \/ UpdateCheck \/ UpdateCompile
    \/ LoadCall \/ CommitCall

\* a BsetData constructed on an empty basis set directory of a project that
\* has a neighbor list
InitLife == IdleD /\ IdleB /\ IdleS /\ IdleR /\ IdleI /\ IdleW

SpecLife == InitLife /\ [][NextLife]_vars

---------------------------------------------------------------------------
\* Properties of the lifecycle (specification SpecLife)

\* C30 (as stated): a BsetData constructed on a directory without files has
\* no payload, and a step in which the payload goes from set to None is a
\* step of set_bspecs.
C30_EmptyOnlyBySetBspecs ==
    /\ lastOp = "init" => specs = None
    /\ [][(specs # None /\ specs' = None) => lastOp' = "set_bspecs"]_vars

\* C30 (amended): a BsetData constructed on a directory without files has no
\* payload, and a step in which the payload goes from set to None is a step of
\* set_bspecs, or of a load() that found no bspecs.json.
C30_EmptyBySetBspecsOrLoad ==
    /\ lastOp = "init" => specs = None
    /\ [][(specs # None /\ specs' = None) =>
             \/ lastOp' = "set_bspecs"
             \/ (lastOp' = "load" /\ bspecs_json = Absent)]_vars

C30_Witness ==
    /\ lastOp = "load" /\ prevOp = <<"update", "ok">>
    /\ specs = None /\ bspecs_json = Absent
    /\ gf # Absent /\ Cc(Base) \in disk

---------------------------------------------------------------------------
\* BsetData.clean on a directory that holds a specification (specification SpecClean)

\* generated_files.json after update() of a basis set with n equivalents,
\* without and with the compile step
ManifestsOf(n) ==
    LET m == GeneratorManifest(n)
        objects == IF n = 0 THEN <<ClexulatorO(Base), ClexulatorSo(Base)>>
                   ELSE LocalObjectPaths(n)
    IN  {m, [m EXCEPT !.all = MergeAll(m.all, objects)]}

\* a BsetData constructed on a directory that holds any of bspecs.json,
\* writer_params.json and meta.json, before any update(), or after one whose
\* files are all there or were all removed
InitClean ==
    /\ bspecs_json \in {Absent} \cup {File(ToDict(x)) : x \in ClexBasisSpecsValues}
    /\ writer_params_json \in {Absent} \cup {File(x) : x \in ParamsDocuments}
    /\ meta_json \in {Absent, File(JObject({"description"}))}
    /\ bspecs_tmp = Absent /\ writer_params_tmp = Absent /\ meta_tmp = Absent
    /\ LET s == Load(Constructed, Dir)
       IN  /\ specs = s.clex_basis_specs /\ version = s.version
           /\ linear_function_indices = s.linear_function_indices /\ meta = s.meta
    /\ prevOp = <<>> /\ said = {}
    /\ \/ gf = Absent /\ disk = {}
       \/ \E n \in 0..MaxEquiv : \E m \in ManifestsOf(n) :
             /\ gf = File(m)
             /\ disk \in {{}, Range(m.all)}
    /\ gftmp = Absent /\ nlist = TRUE
    /\ pc = "idle" /\ uflags = [no_compile |-> FALSE, only_compile |-> FALSE]
    /\ log = <<>> /\ lastOp = "init" /\ result = "ok" /\ invoked = 0 /\ removed = {}
    /\ raisedEver = FALSE /\ lazy = FALSE /\ kMake = 0 /\ kComp = 0 /\ upre = None /\ lastUpd = None
    /\ IdleD /\ IdleR /\ IdleI /\ IdleW

NextClean == Clean

SpecClean == InitClean /\ [][NextClean]_vars

---------------------------------------------------------------------------
\* Properties of clean (specification SpecClean)

\* C26: clean() leaves bspecs.json, writer_params.json and meta.json, and the
\* in-memory payload, version, linear_function_indices and meta as they are.
C26_CleanKeepsSpecification ==
    [][lastOp' = "clean" =>
          /\ bspecs_json' = bspecs_json
          /\ writer_params_json' = writer_params_json
          /\ meta_json' = meta_json
          /\ specs' = specs
          /\ version' = version
          /\ linear_function_indices' = linear_function_indices
          /\ meta' = meta]_vars

C26_Witness ==
    /\ lastOp = "clean" /\ result = "ok"
    /\ removed # {} /\ disk = {}
    /\ bspecs_json # Absent /\ writer_params_json # Absent /\ meta_json # Absent
    /\ specs # None /\ linear_function_indices # None

\* C27: clean() without a generated_files.json removes nothing, changes no
\* file of the directory and returns normally.
C27_CleanWithoutManifestIsNoOp ==
    [][(lastOp' = "clean" /\ gf = Absent) =>
          /\ removed' = {}
          /\ result' = "ok"
          /\ disk' = disk
          /\ gf' = Absent /\ gftmp' = gftmp
          /\ bspecs_json' = bspecs_json
          /\ writer_params_json' = writer_params_json
          /\ meta_json' = meta_json]_vars

C27_Witness ==
    /\ lastOp = "clean" /\ result = "ok"
    /\ gf = Absent /\ removed = {}
    /\ bspecs_json # Absent /\ meta_json # Absent

---------------------------------------------------------------------------
\* BsetData.__init__: the id (specification SpecId)

\* longest id
MaxIdLen == 3

\* the characters of an id; those that \w matches
IdChars == {"a", "1", "_", "-", ".", "/"}
WordChars == {"a", "1", "_"}

\* all ids of length 0..n
RECURSIVE Ids(_)
Ids(n) ==
    IF n = 0 THEN {<<>>}
    ELSE LET shorter == Ids(n - 1)
         IN  shorter \cup {Append(t, c) : t \in {u \in shorter : Len(u) = n - 1}, c \in IdChars}

\* the length of the longest prefix of id made of word characters
RECURSIVE WordPrefix(_)
WordPrefix(id) ==
    IF id = <<>> \/ Head(id) \notin WordChars THEN 0 ELSE 1 + WordPrefix(Tail(id))

\* re.match(R"^\w+", id): the match (one or more word characters at the start
\* of id), or None
ReMatch(id) ==
    IF WordPrefix(id) >= 1 THEN <<SubSeq(id, 1, WordPrefix(id))>> ELSE None

\* BsetData(proj, id) is about to be called on an empty basis set directory
InitId ==
    /\ idArg \in Ids(MaxIdLen)
    /\ idOut = "none"
    /\ IdleD /\ IdleB /\ IdleS /\ IdleR /\ IdleW

\* BsetData.__init__: the test of the id, then the attributes and load()
Construct ==
    /\ idOut = "none"
    /\ IF ReMatch(idArg) = None
         THEN /\ idOut' = "raised"
              /\ UNCHANGED <<specs, version, linear_function_indices, meta>>
         ELSE /\ idOut' = "constructed"
              /\ SelfIs(Load(Constructed, Dir))
    /\ UNCHANGED idArg
    /\ UNCHANGED <<disk, gf, gftmp, nlist, pc, uflags, log, lastOp, result, invoked,
                   removed, raisedEver, lazy, kMake, kComp, upre, lastUpd>>
    /\ UNCHANGED <<bspecs_json, writer_params_json, meta_json, bspecs_tmp,
                   writer_params_tmp, meta_tmp, prevOp, said>>
    /\ UNCHANGED <<varsD, varsR, varsW>>

NextId == Construct

SpecId == InitId /\ [][NextId]_vars

---------------------------------------------------------------------------
\* Properties of the construction (specification SpecId)

\* C29 (as stated): a construction with the empty id, or with an id holding a
\* character that is neither alphanumeric nor an underscore, has raised.
C29_OnlyWordIdsConstruct ==
    (idOut # "none" /\ (idArg = <<>> \/ \E i \in 1..Len(idArg) : idArg[i] \notin {"a", "1", "_"})) =>
        idOut = "raised"

---------------------------------------------------------------------------
\* BsetData._update_generated_files (specification SpecReg)

\* longest abspaths list handed to one call
MaxReg == 2

\* the paths handed to it: the compiled files make_clexulator registers, and
\* the source file
RegPaths == {ClexulatorO(Base), ClexulatorSo(Base), Cc(Base)}

\* all lists of length 0..n over RegPaths
RECURSIVE PathLists(_)
PathLists(n) ==
    IF n = 0 THEN {<<>>}
    ELSE LET shorter == PathLists(n - 1)
         IN  shorter \cup {Append(l, q) : l \in {t \in shorter : Len(t) = n - 1}, q \in RegPaths}

NoDuplicates(l) == \A i, j \in 1..Len(l) : l[i] = l[j] => i = j

\* the 'all' lists a generated_files.json may hold
AllLists == {l \in PathLists(Cardinality(RegPaths)) : NoDuplicates(l)}

\* a basis set directory with any generated_files.json, or none, and possibly
\* the temporary file of a writer stopped earlier
InitReg ==
    /\ gf \in {Absent} \cup {File([all |-> l, src |-> x, local |-> None]) :
                                l \in AllLists, x \in {None, <<Cc(Base)>>}}
    /\ gftmp \in {Absent, File("leftover")}
    /\ disk = {} /\ specs = None /\ nlist = TRUE
    /\ pc = "idle" /\ uflags = [no_compile |-> FALSE, only_compile |-> FALSE]
    /\ log = <<>> /\ lastOp = "init" /\ result = "ok" /\ invoked = 0 /\ removed = {}
    /\ raisedEver = FALSE /\ lazy = FALSE /\ kMake = 0 /\ kComp = 0 /\ upre = None /\ lastUpd = None
    /\ IdleD /\ IdleS /\ IdleR /\ IdleI /\ IdleW

\* BsetData._update_generated_files(abspaths)
RegisterCall ==
    /\ \E abspaths \in PathLists(MaxReg) :
          LET r == UpdateGeneratedFiles(gf, gftmp, abspaths)
          IN  /\ gf' = r.gf /\ gftmp' = r.tmp
              /\ regArg' = abspaths
              /\ regPre' = [gf |-> gf, tmp |-> gftmp]
              /\ regRepeat' = /\ lastOp = "_update_generated_files"
                              /\ result = "ok"
                              /\ regArg = abspaths
              /\ Returns("_update_generated_files",
                         IF r.out = "raised" THEN "raised" ELSE "ok", 0)
    /\ UNCHANGED <<disk, specs, nlist, pc, uflags, log, removed>>
    /\ UNCHANGED <<varsD, varsS, varsI, varsW>>

NextReg == RegisterCall

SpecReg == InitReg /\ [][NextReg]_vars

---------------------------------------------------------------------------
\* Properties of _update_generated_files (specification SpecReg)

\* the 'all' list of a generated_files.json ([] without the file)
AllOf(f) == IF f = Absent THEN <<>> ELSE f[1].all

\* the position at which x first occurs in l
FirstIndex(l, x) == CHOOSE k \in 1..Len(l) : l[k] = x /\ \A m \in 1..(k - 1) : l[m] # x

\* C18: after a call that returned, 'all' is the list before the call followed
\* by the relpaths handed in that were not in it, each once, in the order of
\* their first occurrence; src_path and local_src_path are as before.
C18_AppendsInOrder ==
    (lastOp = "_update_generated_files" /\ result = "ok") =>
        LET old == AllOf(regPre.gf)
            new == AllOf(gf)
            added == SubSeq(new, Len(old) + 1, Len(new))
        IN  /\ Len(new) >= Len(old)
            /\ SubSeq(new, 1, Len(old)) = old
            /\ Range(added) = Range(regArg) \ Range(old)
            /\ NoDuplicates(new)
            /\ \A i, j \in 1..Len(added) :
                  i < j => FirstIndex(regArg, added[i]) < FirstIndex(regArg, added[j])
            /\ regPre.gf # Absent =>
                  /\ gf # Absent
                  /\ gf[1].src = regPre.gf[1].src
                  /\ gf[1].local = regPre.gf[1].local
            /\ (regPre.gf = Absent /\ gf # Absent) =>
                  (gf[1].src = None /\ gf[1].local = None)

C18_Witness ==
    /\ lastOp = "_update_generated_files" /\ result = "ok"
    /\ regPre.gf # Absent
    /\ Len(regPre.gf[1].all) = 1
    /\ regPre.gf[1].src # None
    /\ Len(regArg) = 2
    /\ Len(gf[1].all) = 3

\* C19: a call all of whose paths are in 'all' already returns without
\* touching generated_files.json or creating its temporary file, also when a
\* leftover temporary file is there; and a call that repeats the paths of the
\* call before it leaves the manifest as that call left it.
C19_NoWriteWhenListed ==
    lastOp = "_update_generated_files" =>
        /\ Range(regArg) \subseteq Range(AllOf(regPre.gf)) =>
              /\ result = "ok"
              /\ gf = regPre.gf
              /\ gftmp = regPre.tmp
        /\ regRepeat =>
              /\ result = "ok"
              /\ gf = regPre.gf

C19_Witness ==
    /\ lastOp = "_update_generated_files" /\ result = "ok"
    /\ regRepeat
    /\ Len(regArg) = 2 /\ regArg[1] # regArg[2]
    /\ gf = regPre.gf
    /\ gftmp # Absent

---------------------------------------------------------------------------
\* Properties of BsetData (specification Spec)

\* the 'all' list of generated_files.json, as a set (empty without the file)
Listed(f) == IF f = Absent THEN {} ELSE Range(f[1].all)

\* C1: within one call of update() the removal of the tracked files comes
\* before the generator, and the generator before any compiler invocation of
\* that call: no clean after a generate or a compile, no generate without a
\* clean before it or after a compile, and (unless only_compile skips the
\* generation) no compile without a generate before it.
C1_UpdateOrder ==
    \A i \in 1..Len(log) :
        /\ log[i] = "clean" => \A j \in 1..(i - 1) : log[j] \notin {"generate", "compile"}
        /\ log[i] = "generate" =>
              /\ \E j \in 1..(i - 1) : log[j] = "clean"
              /\ \A j \in 1..(i - 1) : log[j] # "compile"
        /\ log[i] = "compile" =>
              \/ uflags.only_compile
              \/ \E j \in 1..(i - 1) : log[j] = "generate"

C1_Witness ==
    /\ pc = "idle" /\ lastOp = "update" /\ result = "ok"
    /\ log = <<"clean", "generate", "compile">>
    /\ removed # {}

\* C2: after any sequence of update(), make_clexulator(),
\* make_local_clexulator() and clean() calls that all returned normally, every
\* source file and every object / shared-library file on disk is in the 'all'
\* list of generated_files.json.
C2_ManifestComplete ==
    (pc = "idle" /\ ~raisedEver) =>
        \A p \in disk : p[1] \in {"cc", "o", "so"} => p \in Listed(gf)

C2_Witness ==
    /\ pc = "idle" /\ ~raisedEver
    /\ lastOp = "make_local_clexulator" /\ result = "handle"
    /\ ClexulatorSo(Equiv(1)) \in disk
    /\ ClexulatorSo(Base) \in disk

\* a step that is a whole clean() call, or the clean() inside update()
CleanStep ==
    \/ pc = "idle" /\ pc' = "idle" /\ lastOp' = "clean"
    \/ pc = "upd_clean" /\ pc' # "upd_clean"

\* C3: when clean() returns, no path of the 'all' list exists on disk, only
\* listed paths were removed, listed paths already missing were passed over
\* without an error, and generated_files.json is as it was.
C3_CleanRemovesListed ==
    [][CleanStep =>
         /\ result' # "raised"
         /\ gf' = gf
         /\ Listed(gf) \cap disk' = {}
         /\ disk' \subseteq disk
         /\ disk \ disk' \subseteq Listed(gf)]_vars

C3_Witness ==
    /\ pc = "idle" /\ lastOp = "clean" /\ result = "ok"
    /\ gf # Absent
    /\ removed # {}
    /\ Listed(gf) \cap disk = {}
    /\ ClexulatorSo(Base) \in removed

AccessorStep(op) == pc = "idle" /\ pc' = "idle" /\ lastOp' = op

\* C5: with no generated_files.json, or none that records 'src_path' (for the
\* local accessor: 'local_src_path'), make_clexulator() and
\* make_local_clexulator() return None: they do not raise, do not invoke the
\* compiler and change no file.
C5_NoSourceReturnsNone ==
    [][(\/ AccessorStep("make_clexulator") /\ (gf = Absent \/ gf[1].src = None)
        \/ AccessorStep("make_local_clexulator") /\ (gf = Absent \/ gf[1].local = None))
       => /\ result' = "None"
          /\ invoked' = 0
          /\ disk' = disk /\ gf' = gf /\ gftmp' = gftmp]_vars

C5_Witness ==
    /\ lastOp = "make_clexulator" /\ result = "None"
    /\ gf = Absent
    /\ specs # None

\* C20: when update() has returned normally twice in a row with the same
\* payload and the same flags, generated_files.json is as the first of the two
\* calls left it, and its 'all' list names no path twice.
C20_UpdateTwiceSameManifest ==
    (pc = "idle" /\ lastOp = "update" /\ result = "ok"
       /\ lastUpd # None /\ lastUpd[1].n = 2) =>
        /\ gf = lastUpd[1].gf
        /\ gf # Absent =>
              \A i, j \in 1..Len(gf[1].all) : gf[1].all[i] = gf[1].all[j] => i = j

C20_Witness ==
    /\ pc = "idle" /\ lastOp = "update" /\ result = "ok"
    /\ lastUpd # None /\ lastUpd[1].n = 2
    /\ ~uflags.no_compile /\ ~uflags.only_compile
    /\ specs = <<1>>
    /\ log = <<"clean", "generate", "compile">>
    /\ ClexulatorSo(Equiv(0)) \in Range(gf[1].all)

\* C21: an update() called without the neighbor list, without a payload, or,
\* with compilation requested, ending with no source path on record, has
\* raised, and the directory is as it was when update() was called: nothing
\* was removed, generated, compiled or registered.
C21_PreconditionFailureChangesNothing ==
    (lastOp = "update" /\ pc = "idle"
       /\ (\/ ~nlist
           \/ specs = None
           \/ (~uflags.no_compile /\ (gf = Absent \/ gf[1].src = None)))) =>
        /\ result = "raised"
        /\ upre # None
        /\ disk = upre[1].disk
        /\ gf = upre[1].gf
        /\ gftmp = upre[1].gftmp
        /\ invoked = 0
        /\ log = <<>>

C21_Witness ==
    /\ lastOp = "update" /\ pc = "idle" /\ result = "raised"
    /\ nlist /\ specs = None
    /\ disk # {} /\ gf # Absent
    /\ upre = <<[disk |-> disk, gf |-> gf, gftmp |-> gftmp]>>

\* C22 (as stated): an update(only_compile=True) performs neither clean() nor
\* the generation; and when the source file was not on disk when it was
\* called (and compilation was not switched off) it has raised without a
\* compiler invocation.
C22_OnlyCompileNeedsSourceOnDisk ==
    (lastOp = "update" /\ pc = "idle" /\ uflags.only_compile /\ upre # None) =>
        /\ "clean" \notin Range(log)
        /\ "generate" \notin Range(log)
        /\ (~uflags.no_compile /\ Cc(Base) \notin upre[1].disk) =>
              (result = "raised" /\ invoked = 0)

\* C23: an update(no_compile=True) invokes no compiler and adds no object or
\* shared-library path to 'all'; an update(no_compile=False) that returned
\* normally has invoked the compiler as its last step, after clean() and the
\* generation unless only_compile; and compiled files appear in the directory
\* only in a make_clexulator() / make_local_clexulator() call, in a __repr__
\* (which calls make_clexulator()) or in an update() with no_compile false.
C23_CompileOnlyWhenRequested ==
    /\ [](( lastOp = "update" /\ pc = "idle" /\ upre # None) =>
            /\ uflags.no_compile =>
                  /\ invoked = 0
                  /\ "compile" \notin Range(log)
                  /\ \A q \in Range(AllOf(gf)) \ Range(AllOf(upre[1].gf)) :
                        q[1] \notin {"o", "so"}
            /\ (~uflags.no_compile /\ result = "ok") =>
                  /\ invoked >= 1
                  /\ log # <<>> /\ log[Len(log)] = "compile"
                  /\ ~uflags.only_compile => log = <<"clean", "generate", "compile">>)
    /\ [][(\E q \in disk' \ disk : q[1] \in {"o", "so"}) =>
             \/ lastOp' \in {"make_clexulator", "make_local_clexulator", "__repr__"}
             \/ (lastOp' = "update" /\ ~uflags'.no_compile)]_vars

C23_Witness ==
    /\ lastOp = "update" /\ pc = "idle" /\ result = "ok"
    /\ uflags.no_compile /\ ~uflags.only_compile
    /\ log = <<"clean", "generate">>
    /\ ClexulatorSo(Base) \in removed
    /\ Cc(Base) \in disk /\ ClexulatorSo(Base) \notin disk
    /\ invoked = 0

\* an object or shared-library path of one equivalent
IsEquivObject(q) == q[1] \in {"o", "so"} /\ q[2] # <<>>

\* C24: after make_clexulator() returned a handle the object and the
\* shared-library path of the basis set are in 'all'; after
\* make_local_clexulator() returned a handle with N local source paths on
\* record, the per-equivalent object / shared-library paths in 'all' are
\* exactly the pairs of the equivalents 0..N-1, in that order.
C24_CompileOutputsRegistered ==
    /\ (lastOp = "make_clexulator" /\ result = "handle") =>
          /\ gf # Absent
          /\ <<"o", <<>>>> \in Range(gf[1].all)
          /\ <<"so", <<>>>> \in Range(gf[1].all)
    /\ (lastOp = "make_local_clexulator" /\ result = "handle") =>
          /\ gf # Absent
          /\ gf[1].local # <<>>
          /\ LET N == Len(gf[1].local[1])
             IN  SelectSeq(gf[1].all, IsEquivObject) =
                    [k \in 1..(2 * N) |->
                        IF k % 2 = 1 THEN <<"o", <<(k - 1) \div 2>>>>
                                     ELSE <<"so", <<(k - 2) \div 2>>>>]

C24_Witness ==
    /\ lastOp = "make_local_clexulator" /\ result = "handle"
    /\ Len(gf[1].local[1]) = MaxEquiv
    /\ ClexulatorSo(Equiv(MaxEquiv - 1)) \in Range(gf[1].all)
    /\ ClexulatorSo(Equiv(MaxEquiv - 1)) \in disk

\* C25 (as stated): a compiler invocation by make_clexulator() happens only
\* with no local_src_path on record, one by make_local_clexulator() only with
\* local_src_path on record, and 'all' never lists both the object /
\* shared-library pair of the basis set and a per-equivalent pair.
C25_GlobalAndLocalExclusive ==
    /\ (lastOp = "make_clexulator" /\ invoked >= 1) => gf[1].local = None
    /\ (lastOp = "make_local_clexulator" /\ invoked >= 1) => gf[1].local # None
    /\ gf # Absent =>
          ~(/\ \E q \in Range(gf[1].all) : q[1] \in {"o", "so"} /\ q[2] = <<>>
            /\ \E q \in Range(gf[1].all) : q[1] \in {"o", "so"} /\ q[2] # <<>>)

\* C28: build() changes no file of the directory, invokes no compiler and
\* leaves generated_files.json and the attributes as they are; it raises when
\* the payload is None or the neighbor list is missing, and only then.
C28_BuildIsPure ==
    [][lastOp' = "build" =>
          /\ disk' = disk /\ gf' = gf /\ gftmp' = gftmp
          /\ bspecs_json' = bspecs_json
          /\ writer_params_json' = writer_params_json
          /\ meta_json' = meta_json
          /\ specs' = specs /\ version' = version
          /\ linear_function_indices' = linear_function_indices /\ meta' = meta
          /\ invoked' = 0
          /\ (result' = "raised") = (specs = None \/ ~nlist)]_vars

C28_Witness ==
    /\ lastOp = "build" /\ result = "builder"
    /\ gf # Absent
    /\ ClexulatorSo(Base) \in disk
    /\ ClexulatorSo(Base) \in Range(gf[1].all)

\* C33: when the last make_clexulator(), make_local_clexulator() or update()
\* invoked the compiler, the source file it passed is in the directory; and a
\* make_clexulator() or make_local_clexulator() called right after clean()
\* returns None without invoking the compiler.
C33_CompilerGetsExistingSource ==
    /\ [](( /\ pc = "idle"
            /\ lastOp \in {"make_clexulator", "make_local_clexulator", "update"}
            /\ invoked > 0 /\ gf # Absent) =>
              gf[1].src # None /\ gf[1].src[1] \in disk)
    /\ [][(lastOp = "clean" /\ lastOp' \in {"make_clexulator", "make_local_clexulator"}) =>
             (result' = "None" /\ invoked' = 0)]_vars

\* C34: after a make_clexulator(), make_local_clexulator() or update() that
\* raised, every object and shared-library file in the directory is in the
\* 'all' list of generated_files.json.
C34_ManifestCompleteAfterFailure ==
    (pc = "idle" /\ result = "raised"
       /\ lastOp \in {"make_clexulator", "make_local_clexulator", "update"}) =>
        \A p \in disk : p[1] \in {"o", "so"} => p \in Listed(gf)

\* C35: __repr__ invokes no compiler and changes no file of the directory,
\* generated_files.json and its temporary file included.
C35_ReprIsReadOnly ==
    [][lastOp' = "__repr__" =>
          /\ invoked' = 0
          /\ disk' = disk /\ gf' = gf /\ gftmp' = gftmp
          /\ bspecs_json' = bspecs_json
          /\ writer_params_json' = writer_params_json
          /\ meta_json' = meta_json]_vars

===========================================================================
